---- MODULE Spec2Model ----
(***************************************************************************)
(* Model of fret_app.py: the FRET calculation that runs when the           *)
(* "Calculate FRET Parameters" button is pressed (lines 73-141), and the   *)
(* numeric integrator it calls (scipy.integrate.simpson, lines 83 and 88). *)
(*                                                                         *)
(* Numbers.  A float is a record [k, n, d]: k = "fin" is the rational n/d  *)
(* (d > 0, lowest terms); k = "nan", "inf", "ninf" are the IEEE special    *)
(* values (n = 0, d = 1).  Finite arithmetic is exact: rounding is not     *)
(* modelled, the special values and the raising of exceptions are.  A raw  *)
(* table cell can also be k = "str" (text that is no number) or            *)
(* k = "numstr" (text that spells the number n/d).                         *)
(***************************************************************************)
EXTENDS Integers, Sequences, FiniteSets, TLC

VARIABLES
    raw,          \* the table as read from the uploaded file (line 59/61)
    df,           \* the DataFrame df the handler works on
    wl_col, id_col, ea_col,      \* the three selectbox choices (lines 69-71)
    k2, phi_d, n, f0, f_val,     \* the sidebar number inputs (lines 40-48)
    pc,           \* position of the button handler
    clean_df,     \* line 79
    area_id,      \* line 83
    j_value,      \* line 88
    r0,           \* line 92
    e_efficiency, \* line 96
    r_distance,   \* line 98
    out,          \* sequence of the st.* elements emitted by the handler
    xs, ys, coef, result, ipc    \* the integrator applied on its own

vars == <<raw, df, wl_col, id_col, ea_col, k2, phi_d, n, f0, f_val, pc,
          clean_df, area_id, j_value, r0, e_efficiency, r_distance, out,
          xs, ys, coef, result, ipc>>

pipeVars == <<raw, df, wl_col, id_col, ea_col, k2, phi_d, n, f0, f_val, pc,
              clean_df, area_id, j_value, r0, e_efficiency, r_distance, out>>

intVars == <<xs, ys, coef, result, ipc>>

-----------------------------------------------------------------------------
(* Exact rational arithmetic with the IEEE special values.                 *)

Abs(a) == IF a < 0 THEN -a ELSE a

RECURSIVE Gcd(_, _)
Gcd(a, b) == IF b = 0 THEN a ELSE Gcd(b, a % b)

Q(a, b) ==
    LET s == IF b < 0 THEN -1 ELSE 1
        g == Gcd(Abs(a), Abs(b))
    IN  [k |-> "fin", n |-> (s * a) \div g, d |-> (s * b) \div g]

I(a) == [k |-> "fin", n |-> a, d |-> 1]

NaN  == [k |-> "nan",  n |-> 0, d |-> 1]
PInf == [k |-> "inf",  n |-> 0, d |-> 1]
NInf == [k |-> "ninf", n |-> 0, d |-> 1]

IsFin(a) == a.k = "fin"
IsInf(a) == a.k \in {"inf", "ninf"}

\* Sign of a non-NaN float: -1, 0 or 1.
Sgn(a) ==
    CASE a.k = "inf"  -> 1
      [] a.k = "ninf" -> -1
      [] OTHER        -> IF a.n > 0 THEN 1 ELSE IF a.n < 0 THEN -1 ELSE 0

SignedInf(s) == IF s > 0 THEN PInf ELSE NInf

FNeg(a) ==
    CASE a.k = "fin"  -> Q(-a.n, a.d)
      [] a.k = "inf"  -> NInf
      [] a.k = "ninf" -> PInf
      [] OTHER        -> NaN

FAdd(a, b) ==
    CASE a.k = "nan" \/ b.k = "nan" -> NaN
      [] IsFin(a) /\ IsFin(b)       ->
             LET g == Gcd(a.d, b.d)
             IN  Q(a.n * (b.d \div g) + b.n * (a.d \div g), (a.d \div g) * b.d)
      [] IsInf(a) /\ IsInf(b)       -> IF a.k = b.k THEN a ELSE NaN
      [] IsInf(a)                   -> a
      [] OTHER                      -> b

FSub(a, b) == FAdd(a, FNeg(b))

FMul(a, b) ==
    CASE a.k = "nan" \/ b.k = "nan" -> NaN
      [] IsFin(a) /\ IsFin(b)       ->
             LET g == Gcd(Abs(a.n), b.d)
                 h == Gcd(Abs(b.n), a.d)
             IN  Q((a.n \div g) * (b.n \div h), (a.d \div h) * (b.d \div g))
      [] Sgn(a) = 0 \/ Sgn(b) = 0   -> NaN
      [] OTHER                      -> SignedInf(Sgn(a) * Sgn(b))

\* Division of numpy/pandas floats: x/0 is +-inf, 0/0 is nan, nothing raises.
FDiv(a, b) ==
    CASE a.k = "nan" \/ b.k = "nan" -> NaN
      [] IsInf(a) /\ IsInf(b)       -> NaN
      [] IsInf(a)                   -> SignedInf(Sgn(a) * (IF Sgn(b) < 0 THEN -1 ELSE 1))
      [] IsInf(b)                   -> I(0)
      [] b.n = 0                    -> IF a.n = 0 THEN NaN ELSE SignedInf(Sgn(a))
      [] OTHER                      ->
             LET g == Gcd(Abs(a.n), Abs(b.n))
                 h == Gcd(a.d, b.d)
             IN  Q((a.n \div g) * (b.d \div h), (a.d \div h) * (b.n \div g))

\* IEEE comparisons: false as soon as a NaN is involved.
FLt(a, b) ==
    CASE a.k = "nan" \/ b.k = "nan" -> FALSE
      [] a.k = "ninf"               -> b.k # "ninf"
      [] a.k = "inf"                -> FALSE
      [] b.k = "ninf"               -> FALSE
      [] b.k = "inf"                -> TRUE
      [] OTHER                      ->
             LET g == Gcd(a.d, b.d)
             IN  a.n * (b.d \div g) < b.n * (a.d \div g)

FEq(a, b) == a.k # "nan" /\ b.k # "nan" /\ a = b

FLe(a, b) == FLt(a, b) \/ FEq(a, b)

Pow4(a) == FMul(FMul(a, a), FMul(a, a))


-----------------------------------------------------------------------------
(* scipy.integrate.simpson(y, x), as called at lines 83 and 88: composite  *)
(* Simpson's rule for irregularly spaced samples.  y and x are sequences   *)
(* of floats of the same length.  The definitions follow the function as   *)
(* scipy ships it since 1.11: parabolic segments over pairs of intervals   *)
(* (_basic_simpson), the trapezoid for 2 samples, and for an even number   *)
(* of samples above 2 a parabolic correction for the last interval.        *)

Half  == Q(1, 2)
Sixth == Q(1, 6)

\* np.true_divide(a, b, out=zeros, where=b != 0)
TrueDivideWhere(a, b) == IF FEq(b, I(0)) THEN I(0) ELSE FDiv(a, b)

\* np.diff(x)[i] for the 0-based index i
Diff(x, i) == FSub(x[i + 2], x[i + 1])

\* (variant: the weights of evenly spaced samples, h/3 * (y0 + 4 y1 + y2))
SimpsonPanelEvenSpacing(y, x, i) ==
    FMul(FMul(FAdd(Diff(x, i), Diff(x, i + 1)), Sixth),
         FAdd(FAdd(y[i + 1], FMul(I(4), y[i + 2])), y[i + 3]))

\* One parabolic segment of _basic_simpson over the samples i, i+1, i+2
\* (0-based): hsum/6 * (y0*(2 - 1/(h0/h1)) + y1*(hsum*hsum/hprod) + y2*(2 - h0/h1))
SimpsonPanel(y, x, i) ==
    LET h0      == Diff(x, i)
        h1      == Diff(x, i + 1)
        hsum    == FAdd(h0, h1)
        hprod   == FMul(h0, h1)
        h0divh1 == TrueDivideWhere(h0, h1)
        w0      == FSub(I(2), TrueDivideWhere(I(1), h0divh1))
        w1      == FMul(hsum, TrueDivideWhere(hsum, hprod))
        w2      == FSub(I(2), h0divh1)
    IN  FMul(FMul(hsum, Sixth),
             FAdd(FAdd(FMul(y[i + 1], w0), FMul(y[i + 2], w1)), FMul(y[i + 3], w2)))

\* np.sum of the segments starting at i, i+2, ... below stop
RECURSIVE SumPanels(_, _, _, _)
SumPanels(y, x, i, stop) ==
    IF i >= stop THEN I(0)
    ELSE FAdd(SimpsonPanel(y, x, i), SumPanels(y, x, i + 2, stop))

\* _basic_simpson(y, 0, stop, x, dx, axis); a negative stop counts from the end
BasicSimpson(y, stop, x) ==
    SumPanels(y, x, 0, IF stop < 0 THEN Len(y) + stop ELSE stop)

\* The correction for the last interval when the number of samples is even
\* and above 2: alpha*y[-1] + beta*y[-2] - eta*y[-3]
LastInterval(y, x) ==
    LET N     == Len(y)
        h0    == Diff(x, N - 3)
        h1    == Diff(x, N - 2)
        alpha == TrueDivideWhere(FAdd(FMul(I(2), FMul(h1, h1)), FMul(I(3), FMul(h0, h1))),
                                 FMul(I(6), FAdd(h1, h0)))
        beta  == TrueDivideWhere(FAdd(FMul(h1, h1), FMul(I(3), FMul(h0, h1))),
                                 FMul(I(6), h0))
        eta   == TrueDivideWhere(FMul(h1, FMul(h1, h1)),
                                 FMul(FMul(I(6), h0), FAdd(h0, h1)))
    IN  FSub(FAdd(FMul(alpha, y[N]), FMul(beta, y[N - 1])), FMul(eta, y[N - 2]))

\* simpson raises (indexing an empty array) when there is no sample at all
SimpsonRaises(y) == Len(y) = 0

simpson(y, x) ==
    LET N == Len(y)
    IN  IF N % 2 = 0
        THEN IF N = 2
             THEN FMul(FMul(Half, FSub(x[2], x[1])), FAdd(y[2], y[1]))
             ELSE FAdd(BasicSimpson(y, N - 3, x), LastInterval(y, x))
        ELSE BasicSimpson(y, N - 2, x)

-----------------------------------------------------------------------------
(* The integrator on its own: samples of a polynomial of degree <= 3.      *)

MaxX   == 4      \* abscissae are drawn from 0..MaxX
MaxPts == 5      \* at most MaxPts samples
CoefVals == {-1, 0, 1, 2}

\* strictly increasing sequences of 2..MaxPts abscissae
RECURSIVE IncSeqs(_, _)
IncSeqs(len, lo) ==
    IF len = 0 THEN {<<>>}
    ELSE UNION {{<<a>> \o t : t \in IncSeqs(len - 1, a + 1)} : a \in lo..MaxX}

Abscissae == UNION {IncSeqs(len, 0) : len \in 2..MaxPts}

\* c[0] + c[1] t + c[2] t^2 + c[3] t^3
Poly(c, t) == c[0] + c[1] * t + c[2] * t * t + c[3] * t * t * t

\* the antiderivative c[0] t + c[1] t^2/2 + c[2] t^3/3 + c[3] t^4/4, exactly
Anti(c, t) ==
    FAdd(FAdd(I(c[0] * t), Q(c[1] * t * t, 2)),
         FAdd(Q(c[2] * t * t * t, 3), Q(c[3] * t * t * t * t, 4)))

Exact(c, x) == FSub(Anti(c, x[Len(x)]), Anti(c, x[1]))

Degree(c) == IF c[3] # 0 THEN 3 ELSE IF c[2] # 0 THEN 2 ELSE IF c[1] # 0 THEN 1 ELSE 0

Uniform(x) == \A i \in 1..(Len(x) - 2) : x[i + 1] - x[i] = x[i + 2] - x[i + 1]

Integrate ==
    /\ ipc = "ready"
    /\ result' = simpson(ys, [i \in 1..Len(xs) |-> I(xs[i])])
    /\ ipc' = "done"
    /\ UNCHANGED <<xs, ys, coef>>
    /\ UNCHANGED pipeVars

-----------------------------------------------------------------------------
(* Tables.  A row is a record: idx is the row's DataFrame index label (its *)
(* position in the file), A, B, C are the cells of the three columns.      *)

Cols == {"A", "B", "C"}

Str       == [k |-> "str", n |-> 0, d |-> 1]       \* text that is no number
NumStr(a) == [k |-> "numstr", n |-> a, d |-> 1]    \* text spelling a number
Unset     == [k |-> "unset", n |-> 0, d |-> 1]     \* a name not yet bound

\* pd.to_numeric(cell, errors='coerce')
ToNumeric(c) ==
    CASE c.k = "str"    -> NaN
      [] c.k = "numstr" -> [c EXCEPT !.k = "fin"]
      [] OTHER          -> c

\* the column c of the table t, as an array
Col(t, c) == [i \in 1..Len(t) |-> t[i][c]]

\* lines 76-77: df[col] = pd.to_numeric(df[col], errors='coerce'), for the
\* three selected columns, in place
CoerceColumns(t, sel) ==
    [i \in 1..Len(t) |->
        [f \in DOMAIN t[i] |-> IF f \in sel THEN ToNumeric(t[i][f]) ELSE t[i][f]]]

\* (variant: dropna(how='all'), which drops a row only if all three are NaN)
DropNaAll(t, sel) == SelectSeq(t, LAMBDA r : \E c \in sel : r[c].k # "nan")

\* df.dropna(subset=[wl, id, ea]): the rows with no NaN in these columns
DropNa(t, sel) == SelectSeq(t, LAMBDA r : \A c \in sel : r[c].k # "nan")

\* the orderings of the row positions in S that are ascending in the key
RECURSIVE AscendingOrders(_, _, _)
AscendingOrders(t, by, S) ==
    IF S = {} THEN {<<>>}
    ELSE UNION {{<<i>> \o rest : rest \in AscendingOrders(t, by, S \ {i})} :
                   i \in {j \in S : \A m \in S : FLe(t[j][by], t[m][by])}}

\* .sort_values(by=wl): pandas' default kind='quicksort' orders the rows by
\* the key and promises nothing on the order of rows with equal keys, so the
\* result is any ordering of the rows that is ascending in the key.
SortValues(t, by) ==
    {[i \in 1..Len(t) |-> t[p[i]]] : p \in AscendingOrders(t, by, 1..Len(t))}

\* (variant: division by the magnitude of the area)
NormalizeDonorAbs(t, c, area) ==
    [i \in 1..Len(t) |-> FDiv(t[i][c], IF Sgn(area) < 0 THEN FNeg(area) ELSE area)]

\* line 84: clean_df[id_col] / area_id
NormalizeDonor(t, c, area) == [i \in 1..Len(t) |-> FDiv(t[i][c], area)]

\* line 87: clean_df['norm_Id'] * clean_df[ea_col] * (clean_df[wl_col]**4)
JIntegrand(t, ea, wl) ==
    [i \in 1..Len(t) |-> FMul(FMul(t[i]["norm_Id"], t[i][ea]), Pow4(t[i][wl]))]

\* clean_df[name] = values: a new column
WithColumn(t, name, values) ==
    [i \in 1..Len(t) |-> (name :> values[i]) @@ t[i]]

-----------------------------------------------------------------------------
(* Lengths.  R0 and r are 0.02108 times a sixth root, which is no rational *)
(* number: a length is held as [ty, k, n, d] where n/d is the sixth power  *)
(* of its modulus divided by 0.02108 (exact), k tells a finite value from  *)
(* nan and inf, and ty = "complex" marks a Python complex number, which is *)
(* what a negative float raised to 1/6 is (argument pi/6).                 *)

ForsterCoef == Q(2108, 100000)

Length(ty, v) == [ty |-> ty, k |-> v.k, n |-> v.n, d |-> v.d]
Mod6(l) == [k |-> l.k, n |-> l.n, d |-> l.d]
UnsetLength == [ty |-> "unset", k |-> "unset", n |-> 0, d |-> 1]

\* numpy: base ** (1/6) for a float64 base; a negative base gives nan
NumpyRoot6(v) ==
    CASE v.k = "nan"            -> NaN
      [] IsInf(v)               -> PInf
      [] v.n < 0                -> NaN
      [] OTHER                  -> v

\* Python: n ** -4 raises ZeroDivisionError for n = 0
PowRaises(base) == base.n = 0

\* (variant: numpy's division, which never raises)
NumpyDivRaises(b) == FALSE

\* Python: a / b raises ZeroDivisionError for b = 0
PyDivRaises(b) == b.n = 0

\* line 92: 0.02108 * ((k2 * phi_d * (n**-4) * j_value) ** (1/6))
ForsterR0(kk, phi, nn, j) ==
    Length("real", NumpyRoot6(FMul(FMul(FMul(kk, phi), FDiv(I(1), Pow4(nn))), j)))

\* line 96: 1 - (f_val / f0)
Efficiency(f, fzero) == FSub(I(1), FDiv(f, fzero))

\* line 98: r0 * (((1 - E) / E) ** (1/6)); the power is a Python float for a
\* ratio >= 0 and a Python complex for a ratio < 0
Distance(rzero, e) ==
    LET ratio == FDiv(FSub(I(1), e), e)
        mag   == IF ratio.n < 0 THEN FNeg(ratio) ELSE ratio
    IN  Length(IF ratio.n < 0 THEN "complex" ELSE "real", FMul(Mod6(rzero), mag))

\* c * l for a float c >= 0 whose sixth power is c6
Scale(c6, l) == Length(l.ty, FMul(c6, Mod6(l)))

\* sixth power of the real part over 0.02108: cos(pi/6)^6 = 27/64
Re6(l) == IF l.ty = "complex" THEN FMul(Q(27, 64), Mod6(l)) ELSE Mod6(l)

\* is the imaginary part above 0 (it is never below)
ImPositive(l) == l.ty = "complex" /\ (l.k = "inf" \/ (l.k = "fin" /\ l.n > 0))

\* numpy's a <= b: on floats the IEEE comparison, and as soon as one side is
\* complex the lexicographic one on (real part, imaginary part)
LengthLe(a, b) ==
    \/ FLt(Re6(a), Re6(b))
    \/ FEq(Re6(a), Re6(b)) /\ (ImPositive(a) => ImPositive(b))

\* (variant: the upper bound alone)
BelowUpperBound(r, rzero) == LengthLe(r, Scale(Q(729, 64), rzero))

\* line 135: 0.5 * r0 <= r_distance <= 1.5 * r0
InSensitiveRange(r, rzero) ==
    /\ LengthLe(Scale(Q(1, 64), rzero), r)
    /\ LengthLe(r, Scale(Q(729, 64), rzero))

-----------------------------------------------------------------------------
(* The button handler, lines 73-141, one action per statement.  pc names   *)
(* the statement about to run; a raised exception moves to "except".       *)

Sel == {wl_col, id_col, ea_col}

\* lines 76-77
Coerce ==
    /\ pc = "coerce"
    /\ df' = CoerceColumns(df, Sel)
    /\ pc' = "clean"
    /\ UNCHANGED <<raw, wl_col, id_col, ea_col, k2, phi_d, n, f0, f_val,
                   clean_df, area_id, j_value, r0, e_efficiency, r_distance, out>>
    /\ UNCHANGED intVars

\* line 79
CleanSort ==
    /\ pc = "clean"
    /\ clean_df' \in SortValues(DropNa(df, Sel), wl_col)
    /\ pc' = "area"
    /\ UNCHANGED <<raw, df, wl_col, id_col, ea_col, k2, phi_d, n, f0, f_val,
                   area_id, j_value, r0, e_efficiency, r_distance, out>>
    /\ UNCHANGED intVars

\* line 83
AreaId ==
    /\ pc = "area"
    /\ IF SimpsonRaises(Col(clean_df, id_col))
       THEN pc' = "except" /\ UNCHANGED area_id
       ELSE /\ area_id' = simpson(Col(clean_df, id_col), Col(clean_df, wl_col))
            /\ pc' = "norm"
    /\ UNCHANGED <<raw, df, wl_col, id_col, ea_col, k2, phi_d, n, f0, f_val,
                   clean_df, j_value, r0, e_efficiency, r_distance, out>>
    /\ UNCHANGED intVars

\* line 84
NormId ==
    /\ pc = "norm"
    /\ clean_df' = WithColumn(clean_df, "norm_Id", NormalizeDonor(clean_df, id_col, area_id))
    /\ pc' = "integrand"
    /\ UNCHANGED <<raw, df, wl_col, id_col, ea_col, k2, phi_d, n, f0, f_val,
                   area_id, j_value, r0, e_efficiency, r_distance, out>>
    /\ UNCHANGED intVars

\* line 87
Integrand ==
    /\ pc = "integrand"
    /\ clean_df' = WithColumn(clean_df, "J_integrand", JIntegrand(clean_df, ea_col, wl_col))
    /\ pc' = "j"
    /\ UNCHANGED <<raw, df, wl_col, id_col, ea_col, k2, phi_d, n, f0, f_val,
                   area_id, j_value, r0, e_efficiency, r_distance, out>>
    /\ UNCHANGED intVars

\* line 88
JValue ==
    /\ pc = "j"
    /\ IF SimpsonRaises(Col(clean_df, "J_integrand"))
       THEN pc' = "except" /\ UNCHANGED j_value
       ELSE /\ j_value' = simpson(Col(clean_df, "J_integrand"), Col(clean_df, wl_col))
            /\ pc' = "r0"
    /\ UNCHANGED <<raw, df, wl_col, id_col, ea_col, k2, phi_d, n, f0, f_val,
                   clean_df, area_id, r0, e_efficiency, r_distance, out>>
    /\ UNCHANGED intVars

\* line 92
R0 ==
    /\ pc = "r0"
    /\ IF PowRaises(n)
       THEN pc' = "except" /\ UNCHANGED r0
       ELSE r0' = ForsterR0(k2, phi_d, n, j_value) /\ pc' = "eff"
    /\ UNCHANGED <<raw, df, wl_col, id_col, ea_col, k2, phi_d, n, f0, f_val,
                   clean_df, area_id, j_value, e_efficiency, r_distance, out>>
    /\ UNCHANGED intVars

\* line 96
Eff ==
    /\ pc = "eff"
    /\ IF PyDivRaises(f0)
       THEN pc' = "except" /\ UNCHANGED e_efficiency
       ELSE e_efficiency' = Efficiency(f_val, f0) /\ pc' = "dist"
    /\ UNCHANGED <<raw, df, wl_col, id_col, ea_col, k2, phi_d, n, f0, f_val,
                   clean_df, area_id, j_value, r0, r_distance, out>>
    /\ UNCHANGED intVars

\* line 98
Dist ==
    /\ pc = "dist"
    /\ IF PyDivRaises(e_efficiency)
       THEN pc' = "except" /\ UNCHANGED r_distance
       ELSE r_distance' = Distance(r0, e_efficiency) /\ pc' = "display"
    /\ UNCHANGED <<raw, df, wl_col, id_col, ea_col, k2, phi_d, n, f0, f_val,
                   clean_df, area_id, j_value, r0, e_efficiency, out>>
    /\ UNCHANGED intVars

\* lines 101-113: the four metrics and the summary line
Display ==
    /\ pc = "display"
    /\ out' = out \o <<"metric J", "metric R0", "metric E", "metric r", "info summary">>
    /\ pc' = "plot"
    /\ UNCHANGED <<raw, df, wl_col, id_col, ea_col, k2, phi_d, n, f0, f_val,
                   clean_df, area_id, j_value, r0, e_efficiency, r_distance>>
    /\ UNCHANGED intVars

\* lines 116-131: the two series handed to the plot
Plot ==
    /\ pc = "plot"
    /\ out' = Append(out, "pyplot")
    /\ pc' = "validate"
    /\ UNCHANGED <<raw, df, wl_col, id_col, ea_col, k2, phi_d, n, f0, f_val,
                   clean_df, area_id, j_value, r0, e_efficiency, r_distance>>
    /\ UNCHANGED intVars

\* lines 134-138
Validate ==
    /\ pc = "validate"
    /\ out' = Append(out, IF InSensitiveRange(r_distance, r0)
                          THEN "success within sensitive range"
                          ELSE "warning outside sensitive range")
    /\ pc' = "done"
    /\ UNCHANGED <<raw, df, wl_col, id_col, ea_col, k2, phi_d, n, f0, f_val,
                   clean_df, area_id, j_value, r0, e_efficiency, r_distance>>
    /\ UNCHANGED intVars

\* lines 140-141
Except ==
    /\ pc = "except"
    /\ out' = Append(out, "error Calculation Error")
    /\ pc' = "done"
    /\ UNCHANGED <<raw, df, wl_col, id_col, ea_col, k2, phi_d, n, f0, f_val,
                   clean_df, area_id, j_value, r0, e_efficiency, r_distance>>
    /\ UNCHANGED intVars

-----------------------------------------------------------------------------
(* Inputs.                                                                 *)

MaxWl   == 5     \* wavelengths of a spectrum are drawn from 1..MaxWl
MaxRows == 3     \* rows of an arbitrary uploaded table

IdVals == {I(-1), I(1), I(2)}
EaVals == {I(-1), I(1)}

\* the st.number_input values: small rationals stand for the floats the user
\* enters (defaults 0.667, 0.118, 1.33, 3787.66, 2278.21); the first of each
\* set stands for the default
K2Vals  == {Q(2, 3), I(-1)}
PhiVals == {Q(1, 8)}
NVals   == {Q(4, 3), I(0)}
FVals   == {I(0), I(1), I(2), I(3)}

Row(i, a, b, c) == [idx |-> i, A |-> a, B |-> b, C |-> c]

\* spectra: strictly increasing wavelengths, numeric cells, any length from 0
RECURSIVE Spectra(_, _, _)
Spectra(lo, i, c) ==
    {<<>>} \cup
    UNION {{<<Row(i, I(w), b, c)>> \o t : t \in Spectra(w + 1, i + 1, c)} :
              <<w, b>> \in (lo..MaxWl) \X IdVals}

\* arbitrary tables: rows in any order, equal wavelengths, cells that are
\* text or missing
RECURSIVE Tables(_, _)
Tables(len, rows) ==
    IF len = 0 THEN {<<>>}
    ELSE {Append(t, [r EXCEPT !.idx = len - 1]) : t \in Tables(len - 1, rows), r \in rows}

DirtyRows ==
    {Row(0, a, b, I(1)) : a \in {I(1), I(2), Str}, b \in {I(0), I(1)}}

\* a spectrum on which every formula is defined
GoodTable == <<Row(0, I(1), I(1), I(1)), Row(1, I(2), I(2), I(1)), Row(2, I(3), I(1), I(1))>>

IntIdle ==
    /\ xs = <<>> /\ ys = <<>> /\ coef = [i \in 0..3 |-> 0]
    /\ result = Unset /\ ipc = "idle"

Loaded(t) ==
    /\ raw = t /\ df = t
    /\ pc = "coerce"
    /\ clean_df = <<>>
    /\ area_id = Unset /\ j_value = Unset /\ e_efficiency = Unset
    /\ r0 = UnsetLength /\ r_distance = UnsetLength
    /\ out = <<>>

Defaults ==
    /\ k2 = Q(2, 3) /\ phi_d = Q(1, 8) /\ n = Q(4, 3)
    /\ f0 = I(3) /\ f_val = I(2)

Init ==
    /\ IntIdle
    /\ wl_col = "A" /\ id_col = "B" /\ ea_col = "C"
    /\ \/ (\E c \in EaVals : \E t \in Spectra(1, 0, c) : Loaded(t)) /\ Defaults
       \/ (\E t \in UNION {Tables(len, DirtyRows) : len \in 0..MaxRows} : Loaded(t)) /\ Defaults
       \/ /\ \E t \in {GoodTable, SubSeq(GoodTable, 1, 2),
                       <<Row(0, I(1), I(1), I(-1)), Row(1, I(2), I(1), I(-1))>>} : Loaded(t)
          /\ k2 \in K2Vals /\ phi_d \in PhiVals /\ n \in NVals
          /\ f0 \in FVals /\ f_val \in FVals

Next ==
    \/ Coerce \/ CleanSort \/ AreaId \/ NormId \/ Integrand \/ JValue
    \/ R0 \/ Eff \/ Dist \/ Display \/ Plot \/ Validate \/ Except

Spec == Init /\ [][Next]_vars

(* The integrator alone.                                                   *)

PipeIdle ==
    /\ raw = <<>> /\ df = <<>>
    /\ wl_col = "A" /\ id_col = "B" /\ ea_col = "C"
    /\ Defaults
    /\ pc = "idle"
    /\ clean_df = <<>>
    /\ area_id = Unset /\ j_value = Unset /\ e_efficiency = Unset
    /\ r0 = UnsetLength /\ r_distance = UnsetLength
    /\ out = <<>>

InitInt ==
    /\ PipeIdle
    /\ xs \in Abscissae
    /\ coef \in [0..3 -> CoefVals]
    /\ ys = [i \in 1..Len(xs) |-> I(Poly(coef, xs[i]))]
    /\ result = Unset
    /\ ipc = "ready"

SpecInt == InitInt /\ [][Integrate]_vars

(* The data cleaning alone (lines 75-79), on arbitrary tables and for      *)
(* every choice of the three columns.                                      *)

CleanRows ==
    {Row(0, a, b, I(1)) : a \in {I(1), I(2), Str}, b \in {I(1), NaN, NumStr(2)}}

Selections ==
    {s \in Cols \X Cols \X Cols :
        Cardinality({s[1], s[2], s[3]}) = 3 \/ Cardinality({s[1], s[2], s[3]}) = 1}

InitClean ==
    /\ IntIdle
    /\ Defaults
    /\ \E s \in Selections : wl_col = s[1] /\ id_col = s[2] /\ ea_col = s[3]
    /\ \E t \in UNION {Tables(len, CleanRows) : len \in 0..MaxRows} : Loaded(t)

NextClean == Coerce \/ CleanSort

SpecClean == InitClean /\ [][NextClean]_vars

-----------------------------------------------------------------------------
(* Properties.                                                             *)

Metrics  == {"metric J", "metric R0", "metric E", "metric r", "info summary", "pyplot"}
Verdicts == {"success within sensitive range", "warning outside sensitive range"}
ErrorReport == <<"error Calculation Error">>

Emitted == {out[i] : i \in 1..Len(out)}

Cleaned == pc \notin {"idle", "coerce", "clean"}

\* a raw cell that pd.to_numeric turns into a number
IsNumber(c) == c.k \in {"fin", "numstr", "inf", "ninf"}

ValidIdx == {raw[i].idx : i \in {j \in 1..Len(raw) : \A c \in Sel : IsNumber(raw[j][c])}}

KeepsExactlyValidRows ==
    /\ Len(clean_df) = Cardinality(ValidIdx)
    /\ {clean_df[i].idx : i \in 1..Len(clean_df)} = ValidIdx
    /\ \A i \in 1..Len(clean_df) : \A c \in Cols :
           \E j \in 1..Len(raw) :
               /\ raw[j].idx = clean_df[i].idx
               /\ clean_df[i][c] = IF c \in Sel /\ raw[j][c].k = "numstr"
                                   THEN I(raw[j][c].n) ELSE raw[j][c]

Ascending ==
    \A i \in 1..(Len(clean_df) - 1) :
        LET a == clean_df[i][wl_col]
            b == clean_df[i + 1][wl_col]
        IN  a.n * b.d <= b.n * a.d

TiesKeepOrder ==
    \A i, j \in 1..Len(clean_df) :
        (i < j /\ clean_df[i][wl_col] = clean_df[j][wl_col])
            => clean_df[i].idx < clean_df[j].idx

\* C1 as stated: the cleaned table holds exactly the rows whose three selected
\* cells are numbers, ascending by wavelength, rows of equal wavelength in
\* their original relative order.
C1_StableSorted ==
    Cleaned => (KeepsExactlyValidRows /\ Ascending /\ TiesKeepOrder)

\* C1 amended: the cleaned table holds exactly the rows whose three selected
\* cells are numbers, ascending by wavelength; nothing is said on the order
\* of rows of equal wavelength.
C1_Sorted ==
    Cleaned => (KeepsExactlyValidRows /\ Ascending)

\* a row was dropped and the sort moved a row
C1_Witness ==
    /\ Cleaned
    /\ Len(clean_df) >= 2
    /\ Len(clean_df) < Len(raw)
    /\ \E i \in 1..(Len(clean_df) - 1) : clean_df[i].idx > clean_df[i + 1].idx

\* C10 as stated: the cleaning leaves every cell of the raw table as it was.
C10_RawUnchanged == df = raw

NothingComputed ==
    /\ area_id = Unset /\ j_value = Unset /\ e_efficiency = Unset
    /\ r0 = UnsetLength /\ r_distance = UnsetLength

\* C2 as stated: with fewer than 2 rows left after cleaning the handler fails
\* before it evaluates any formula (donor area, J, R0, E, r) and reports an
\* error.
C2_AbortsBelowTwoRows ==
    (Cleaned /\ Len(clean_df) < 2) =>
        /\ NothingComputed
        /\ pc \in {"area", "except", "done"}
        /\ pc = "done" => out = ErrorReport

\* C3: with f0 = 0 or f = f0 the handler ends with the error report alone:
\* no metric, no plot and no verdict is ever emitted.
C3_NoPartialResult ==
    (f0 = I(0) \/ f_val = f0) =>
        /\ Emitted \cap (Metrics \cup Verdicts) = {}
        /\ r_distance = UnsetLength
        /\ pc = "done" => out = ErrorReport

\* f = f0 # 0: E was computed as 0 and the division in the r formula raised
C3_Witness ==
    /\ pc = "done" /\ out = ErrorReport
    /\ f_val = f0 /\ f0 # I(0)
    /\ e_efficiency = I(0) /\ r0 # UnsetLength

\* C4 as stated: with f > f0 > 0 (E < 0, a negative ratio) the r formula
\* fails: no r that is complex or undefined is displayed or handed to the
\* range check, and the handler ends with the error report.  Stated where R0
\* is a finite positive number, so that the ratio alone is at stake.
C4_NegativeRatioFails ==
    (FLt(I(0), f0) /\ FLt(f0, f_val) /\ r0.ty = "real" /\ r0.k = "fin" /\ r0.n > 0) =>
        /\ Emitted \cap (Metrics \cup Verdicts) = {}
        /\ pc \notin {"plot", "validate"}
        /\ pc = "done" => out = ErrorReport

ValidSpectrum == Len(clean_df) >= 2 /\ IsFin(area_id) /\ area_id.n # 0

\* C5 as stated: every R0 that is produced is a real number above 0 (a
\* negative radicand fails instead of giving nan).  Stated for a cleaned table
\* of at least 2 rows with a finite non-zero donor area and a finite J # 0, so
\* that the sign of the radicand alone is at stake.
C5_R0Positive ==
    (ValidSpectrum /\ IsFin(j_value) /\ j_value.n # 0 /\ r0 # UnsetLength) =>
        /\ r0.ty = "real" /\ r0.k = "fin"
        /\ Sgn(FMul(ForsterCoef, Mod6(r0))) > 0

\* C6 as stated: with a donor area that is zero or not finite the handler
\* fails before it normalizes: no division by the area, no J.  Stated for a
\* cleaned table of at least 2 rows.
C6_DegenerateAreaFails ==
    (Len(clean_df) >= 2 /\ area_id # Unset /\ ~(IsFin(area_id) /\ area_id.n # 0)) =>
        /\ pc \in {"norm", "except", "done"}
        /\ j_value = Unset
        /\ \A i \in 1..Len(clean_df) : "norm_Id" \notin DOMAIN clean_df[i]
        /\ pc = "done" => out = ErrorReport

Validated == pc = "done" /\ r_distance # UnsetLength

\* 0.5*R0 <= r <= 1.5*R0 on the sixth powers, for real r and R0 (false with a nan)
RealInRange ==
    /\ FLe(FMul(Q(1, 64), Mod6(r0)), Mod6(r_distance))
    /\ FLe(Mod6(r_distance), FMul(Q(729, 64), Mod6(r0)))

HasNorm == Len(clean_df) >= 1 /\ "norm_Id" \in DOMAIN clean_df[1]

\* C8: for a cleaned table of at least 2 rows with a finite non-zero donor
\* area, the normalized donor column integrates to 1 over the wavelengths.
C8_NormalizedIntegratesToOne ==
    (HasNorm /\ ValidSpectrum) =>
        simpson(Col(clean_df, "norm_Id"), Col(clean_df, wl_col)) = I(1)

\* samples at uneven spacing, an area other than 1
C8_Witness ==
    /\ HasNorm /\ Len(clean_df) >= 3
    /\ IsFin(area_id) /\ area_id.n # 0 /\ area_id # I(1)
    /\ clean_df[2][wl_col].n - clean_df[1][wl_col].n # clean_df[3][wl_col].n - clean_df[2][wl_col].n

=============================================================================
